---- MODULE Spec2Model ----
(***************************************************************************)
(* Model of offline_profile() in direct_collocation_lutein_1FE.py: the     *)
(* Lagrange basis (continuity coefficients D), the direct-collocation      *)
(* transcription loop that assembles w, w0, lbw, ubw, g, lbg, ubg and J,   *)
(* the single solver call and the positional trajectory extraction.        *)
(*                                                                         *)
(* Numeric literals of the source are kept in thousandths (0.27 -> 270,    *)
(* 765. -> 765000, 1e5 -> 100000000), so that they are integers.           *)
(* Collocation nodes and the coefficients D are exact rationals <<n, d>>;  *)
(* floating-point rounding of numpy is not modelled.                       *)
(* Symbolic casadi variables are records Sym(kind, k, j).                  *)
(***************************************************************************)
EXTENDS Integers, Sequences, FiniteSets, TLC

\* ---------------------------------------------------------------- bounds
MaxN == 6
MaxD == 5
NodeGrid == 6
MaxSeed == 2

\* ------------------------------------------------------ program constants
T == 144
nd == 3
nu == 2
NegInf == -2000000000

VARIABLES pc, N, d, m, tau_root, D, h,
          w, w0, lbw, ubw, g, lbg, ubg, J,
          x_plot, u_plot, Xk, Uk, Uk_prev, Xc, Xk_end, k, j,
          trajectories, solveCalls, passed, sol, success,
          x_opt, u_opt, printed

vars == <<pc, N, d, m, tau_root, D, h,
          w, w0, lbw, ubw, g, lbg, ubg, J,
          x_plot, u_plot, Xk, Uk, Uk_prev, Xc, Xk_end, k, j,
          trajectories, solveCalls, passed, sol, success,
          x_opt, u_opt, printed>>

config == <<N, d, m, tau_root>>
basis == <<D>>
nlpVars == <<w, w0, lbw, ubw>>
nlpCons == <<g, lbg, ubg>>
plots == <<x_plot, u_plot>>
locals == <<Xk, Uk, Uk_prev, Xc, Xk_end>>
solverState == <<trajectories, solveCalls, passed, sol, success>>
outputs == <<x_opt, u_opt, printed>>

\* ------------------------------------------------------ exact rationals
Abs(a) == IF a < 0 THEN -a ELSE a

RECURSIVE GCD(_, _)
GCD(a, b) == IF b = 0 THEN a ELSE GCD(b, a % b)

Norm(r) ==
  LET s == IF r[2] < 0 THEN -1 ELSE 1
      c == GCD(Abs(r[1]), Abs(r[2]))
  IN  IF r[1] = 0 THEN <<0, 1>> ELSE <<s * (r[1] \div c), s * (r[2] \div c)>>

RAdd(a, b) ==
  LET c == GCD(a[2], b[2])
  IN  Norm(<<a[1] * (b[2] \div c) + b[1] * (a[2] \div c), a[2] * (b[2] \div c)>>)

RNeg(a) == <<-a[1], a[2]>>
RSub(a, b) == RAdd(a, RNeg(b))
RMul(a, b) == Norm(<<a[1] * b[1], a[2] * b[2]>>)
RDiv(a, b) == Norm(<<a[1] * b[2], a[2] * b[1]>>)
ROne == <<1, 1>>
RZero == <<0, 1>>

\* np.poly1d: coefficient sequences, highest degree first
PolyCoef(p, i) == IF i >= 1 /\ i <= Len(p) THEN p[i] ELSE RZero

\* p * np.poly1d([1, -root])
PolyMulLinear(p, root) ==
  [i \in 1..(Len(p) + 1) |-> RSub(PolyCoef(p, i), RMul(root, PolyCoef(p, i - 1)))]

PolyDivScalar(p, s) == [i \in 1..Len(p) |-> RDiv(p[i], s)]

\* p(x), Horner evaluation as np.polyval
RECURSIVE PolyValFrom(_, _, _, _)
PolyValFrom(p, x, i, acc) ==
  IF i > Len(p) THEN acc ELSE PolyValFrom(p, x, i + 1, RAdd(RMul(acc, x), p[i]))

PolyVal(p, x) == PolyValFrom(p, x, 1, RZero)

\* variant: the divisor taken as tau[r] - tau[j]
LagrangeFactor_flipped(p, tau, jj, r) ==
  IF r # jj
    THEN PolyDivScalar(PolyMulLinear(p, tau[r + 1]), RSub(tau[r + 1], tau[jj + 1]))
    ELSE p

\* the factor contributed by node r to the j-th Lagrange polynomial (line 27-28)
LagrangeFactor(p, tau, jj, r) ==
  IF r # jj
    THEN PolyDivScalar(PolyMulLinear(p, tau[r + 1]), RSub(tau[jj + 1], tau[r + 1]))
    ELSE p

\* inner loop "for r in range(d+1)" of lines 25-28, r running from r0
RECURSIVE LagrangeFrom(_, _, _, _, _)
LagrangeFrom(p, tau, dd, jj, r) ==
  IF r > dd THEN p ELSE LagrangeFrom(LagrangeFactor(p, tau, jj, r), tau, dd, jj, r + 1)

LagrangePoly(tau, dd, jj) == LagrangeFrom(<<ROne>>, tau, dd, jj, 0)

\* D[j] = p(1.0) (line 31); index jj + 1 of the sequence is D[jj]
ContinuityCoefficients(tau, dd) ==
  [i \in 1..(dd + 1) |-> PolyVal(LagrangePoly(tau, dd, i - 1), ROne)]

RECURSIVE RSum(_, _)
RSum(s, i) == IF i > Len(s) THEN RZero ELSE RAdd(s[i], RSum(s, i + 1))

\* ---------------------------------------------------- admissible node sets
\* np.append(0, collocation_points(d)): 0 followed by d increasing points of
\* (0,1]; the points are drawn from the grid a/NodeGrid.
RECURSIVE SortedSeq(_)
SortedSeq(S) ==
  IF S = {} THEN <<>>
  ELSE LET lo == CHOOSE x \in S : \A y \in S : x <= y
       IN  <<lo>> \o SortedSeq(S \ {lo})

NodeSets(dd) ==
  { [i \in 1..(dd + 1) |-> IF i = 1 THEN RZero ELSE Norm(<<SortedSeq(S)[i - 1], NodeGrid>>)] :
      S \in { P \in SUBSET (1..NodeGrid) : Cardinality(P) = dd } }

\* ------------------------------------------------------ symbolic variables
Sym(kind, kk, jj) == [kind |-> kind, k |-> kk, j |-> jj]
NoSym == Sym("none", 0, 0)
Width(s) == IF s.kind = "U" THEN nu ELSE nd

\* ------------------------------------------------- literals of the source
LTWidth == 3
X0_lbw == <<270, 765000, 0>>
\* variant: the initial state bounded above like any other state
X0_ubw_free == <<100000, 100000000, 100000>>
X0_ubw == <<270, 765000, 0>>
X0_w0 == <<270, 765000, 0>>
U_lbw == <<100, 100000>>
U_ubw == <<100000, 1000000>>
U_w0 == <<30000, 1000000>>
Xc_lbw == <<0, 0, 0>>
Xc_ubw == <<100000, 100000000, 100000>>
Xc_w0 == <<1200, 800000, 2000>>
X_lbw == <<0, 0, 0>>
X_ubw == <<100000, 100000000, 100000>>
X_w0 == <<1200, 800000, 2000>>
Path_lbg == <<NegInf, NegInf, NegInf>>
Path_ubg == <<0, 0, 0>>
\* variant: the defect bounded below like a path constraint
Defect_lbg_asPath == <<NegInf, NegInf, NegInf>>
Defect_lbg == <<0, 0, 0>>
Defect_ubg == <<0, 0, 0>>
Cont_lbg == <<0, 0, 0>>
Cont_ubg == <<0, 0, 0>>
\* Uk_prev = [0.001, 100]: a numeric constant, not a decision variable
Uk_prev_init == Sym("const", 0, 0)

\* ------------------------------------------------- constraint expressions
\* one product coefficient * variable of xp or Xk_end
Term(mat, r, c, s) == [mat |-> mat, r |-> r, c |-> c, sym |-> s]

\* qk of "_, qk = f(x, u)": the LT output of f, of width m
PathRow(x, u) ==
  [kind |-> "path", width |-> m, fx |-> x, fu |-> u, lin |-> <<>>, sub |-> NoSym]

\* xp = C[0,j]*Xk + sum_r C[r+1,j]*Xc[r] (lines 185-186); Xc[r] of the code is Xc[r + 1] here
CollocationDerivative(jj) ==
  <<Term("C", 0, jj, Xk)>> \o [r \in 1..d |-> Term("C", r, jj, Xc[r])]

\* h*fj - xp with fj, qj = f(Xc[j-1], Uk) (lines 189-190)
DefectRow(jj) ==
  [kind |-> "defect", width |-> nd, fx |-> Xc[jj], fu |-> Uk,
   lin |-> CollocationDerivative(jj), sub |-> NoSym]

\* Xk_end - Xk (line 213), Xk being the new boundary state
ContinuityRow(xnew) ==
  [kind |-> "cont", width |-> nd, fx |-> NoSym, fu |-> NoSym, lin |-> Xk_end, sub |-> xnew]

\* ------------------------------------------------------ objective terms
TerminalTerm(kk, x) == [kind |-> "terminal", k |-> kk, x |-> x, u |-> NoSym, uprev |-> NoSym]
RateTerm(kk, u, up) == [kind |-> "rate", k |-> kk, x |-> NoSym, u |-> u, uprev |-> up]

\* variant: the rate penalty also taken on the first interval
ObjectiveUpdate_first(Jold, kk) ==
  IF kk = N - 1 THEN Jold \o <<TerminalTerm(kk, Xk), RateTerm(kk, Uk, Uk_prev)>>
  ELSE IF kk >= 0 THEN Jold \o <<RateTerm(kk, Uk, Uk_prev)>>
  ELSE Jold

\* lines 226-231
ObjectiveUpdate(Jold, kk) ==
  IF kk = N - 1 THEN Jold \o <<TerminalTerm(kk, Xk), RateTerm(kk, Uk, Uk_prev)>>
  ELSE IF kk > 0 THEN Jold \o <<RateTerm(kk, Uk, Uk_prev)>>
  ELSE Jold

\* ------------------------------------------------------ concatenation
RECURSIVE Concat(_, _)
Concat(blocks, i) == IF i > Len(blocks) THEN <<>> ELSE blocks[i] \o Concat(blocks, i + 1)

\* ca.vertcat(*w): every block contributes its Width scalar entries
SymEntries(s) == [i \in 1..Width(s) |-> [sym |-> s, i |-> i]]
VertcatSyms(blocks) == Concat([b \in 1..Len(blocks) |-> SymEntries(blocks[b])], 1)

\* ca.vertcat(*g): every block contributes its width rows
RowEntries(b, row) == [i \in 1..row.width |-> [blk |-> b, row |-> row, i |-> i]]
VertcatRows(blocks) == Concat([b \in 1..Len(blocks) |-> RowEntries(b, blocks[b])], 1)

\* ca.Function('trajectories', [w], [x_plot, u_plot]): every output entry is
\* the input entry holding the same symbol component
\* variant: the component of the symbol is ignored
IndexIn_block(flat, e) == CHOOSE n \in 1..Len(flat) : flat[n].sym = e.sym
IndexIn(flat, e) == CHOOSE n \in 1..Len(flat) : flat[n] = e
TrajectoryMap(flat, cols) ==
  [c \in 1..Len(cols) |-> [i \in 1..Width(cols[c]) |-> IndexIn(flat, [sym |-> cols[c], i |-> i])]]

\* x_opt.full(): rows are components, columns are the plotted symbols
Decode(map, rows, v) == [i \in 1..rows |-> [c \in 1..Len(map) |-> v[map[c][i]]]]

\* a primal vector returned by the solver: any point of the box [lbx, ubx];
\* the seed selects one point of the box
SolverPrimal(seed, lbx, ubx) ==
  [i \in 1..Len(lbx) |-> lbx[i] + ((seed * i) % (ubx[i] - lbx[i] + 1))]

\* ------------------------------------------------------------ initial state
InitCommon ==
  /\ pc = "basis"
  /\ N \in (-1)..MaxN
  /\ d \in 1..MaxD
  /\ tau_root \in NodeSets(d)
  /\ D = <<>>
  /\ h = <<>>
  /\ w = <<>> /\ w0 = <<>> /\ lbw = <<>> /\ ubw = <<>>
  /\ g = <<>> /\ lbg = <<>> /\ ubg = <<>>
  /\ J = <<>>
  /\ x_plot = <<>> /\ u_plot = <<>>
  /\ Xk = NoSym /\ Uk = NoSym /\ Uk_prev = NoSym
  /\ Xc = <<>> /\ Xk_end = <<>>
  /\ k = 0 /\ j = 0
  /\ trajectories = <<>>
  /\ solveCalls = 0
  /\ passed = <<>>
  /\ sol = <<>>
  /\ success = <<>>
  /\ x_opt = <<>> /\ u_opt = <<>>
  /\ printed = <<>>

\* the dynamics of the repository: LT = vertcat(g1, g2, g3)
Init == InitCommon /\ m = LTWidth

\* a dynamics function whose path-constraint output may be empty
InitAnyWidth == InitCommon /\ m \in {0, LTWidth}

\* ------------------------------------------------------------------ actions
\* lines 10-40: the Lagrange basis
BuildBasis ==
  /\ pc = "basis"
  /\ D' = ContinuityCoefficients(tau_root, d)
  /\ pc' = "discretize"
  /\ UNCHANGED <<config, h, nlpVars, nlpCons, J, plots, locals, k, j, solverState, outputs>>

\* lines 123-124: h = T/N raises ZeroDivisionError for N = 0
ControlDiscretization ==
  /\ pc = "discretize"
  /\ IF N = 0
       THEN pc' = "error" /\ h' = h
       ELSE pc' = "lift" /\ h' = <<T, N>>
  /\ UNCHANGED <<config, basis, nlpVars, nlpCons, J, plots, locals, k, j, solverState, outputs>>

\* lines 144-151
LiftInitial ==
  /\ pc = "lift"
  /\ Xk' = Sym("X", 0, 0)
  /\ w' = Append(w, Xk')
  /\ lbw' = Append(lbw, X0_lbw)
  /\ ubw' = Append(ubw, X0_ubw)
  /\ w0' = Append(w0, X0_w0)
  /\ x_plot' = Append(x_plot, Xk')
  /\ Uk_prev' = Uk_prev_init
  /\ k' = 0
  /\ pc' = "loop"
  /\ UNCHANGED <<config, basis, h, nlpCons, J, u_plot, Uk, Xc, Xk_end, j, solverState, outputs>>

\* lines 155-161
NewControl ==
  /\ pc = "loop"
  /\ k < N
  /\ Uk' = Sym("U", k, 0)
  /\ w' = Append(w, Uk')
  /\ lbw' = Append(lbw, U_lbw)
  /\ ubw' = Append(ubw, U_ubw)
  /\ w0' = Append(w0, U_w0)
  /\ u_plot' = Append(u_plot, Uk')
  /\ pc' = "path_start"
  /\ UNCHANGED <<config, basis, h, nlpCons, J, x_plot, Xk, Uk_prev, Xc, Xk_end, k, j, solverState, outputs>>

\* lines 163-170
PathAtStart ==
  /\ pc = "path_start"
  /\ g' = Append(g, PathRow(Xk, Uk))
  /\ lbg' = Append(lbg, Path_lbg)
  /\ ubg' = Append(ubg, Path_ubg)
  /\ Xc' = <<>>
  /\ j' = 0
  /\ pc' = "colloc_vars"
  /\ UNCHANGED <<config, basis, h, nlpVars, J, plots, Xk, Uk, Uk_prev, Xk_end, k, solverState, outputs>>

\* lines 171-177, and line 182 when the loop ends
NewCollocationState ==
  /\ pc = "colloc_vars"
  /\ j < d
  /\ LET Xkj == Sym("Xc", k, j)
     IN  /\ Xc' = Append(Xc, Xkj)
         /\ w' = Append(w, Xkj)
  /\ lbw' = Append(lbw, Xc_lbw)
  /\ ubw' = Append(ubw, Xc_ubw)
  /\ w0' = Append(w0, Xc_w0)
  /\ IF j + 1 < d
       THEN j' = j + 1 /\ pc' = pc /\ Xk_end' = Xk_end
       ELSE j' = 1 /\ pc' = "colloc_defect" /\ Xk_end' = <<Term("D", 0, 0, Xk)>>
  /\ UNCHANGED <<config, basis, h, nlpCons, J, plots, Xk, Uk, Uk_prev, k, solverState, outputs>>

\* lines 184-192
CollocationDefect ==
  /\ pc = "colloc_defect"
  /\ g' = Append(g, DefectRow(j))
  /\ lbg' = Append(lbg, Defect_lbg)
  /\ ubg' = Append(ubg, Defect_ubg)
  /\ pc' = "colloc_path"
  /\ UNCHANGED <<config, basis, h, nlpVars, J, plots, locals, k, j, solverState, outputs>>

\* lines 193-199
CollocationPath ==
  /\ pc = "colloc_path"
  /\ g' = Append(g, PathRow(Xc[j], Uk))
  /\ lbg' = Append(lbg, Path_lbg)
  /\ ubg' = Append(ubg, Path_ubg)
  /\ Xk_end' = Append(Xk_end, Term("D", j, 0, Xc[j]))
  /\ IF j < d
       THEN j' = j + 1 /\ pc' = "colloc_defect"
       ELSE j' = j /\ pc' = "new_state"
  /\ UNCHANGED <<config, basis, h, nlpVars, J, plots, Xk, Uk, Uk_prev, Xc, k, solverState, outputs>>

\* variant: the state appended to w before the new symbol is created
NewState_stale ==
  /\ pc = "new_state"
  /\ Xk' = Sym("X", k + 1, 0)
  /\ w' = Append(w, Xk)
  /\ lbw' = Append(lbw, X_lbw)
  /\ ubw' = Append(ubw, X_ubw)
  /\ w0' = Append(w0, X_w0)
  /\ x_plot' = Append(x_plot, Xk')
  /\ pc' = "continuity"
  /\ UNCHANGED <<config, basis, h, nlpCons, J, u_plot, Uk, Uk_prev, Xc, Xk_end, k, j, solverState, outputs>>

\* lines 204-210
NewState ==
  /\ pc = "new_state"
  /\ Xk' = Sym("X", k + 1, 0)
  /\ w' = Append(w, Xk')
  /\ lbw' = Append(lbw, X_lbw)
  /\ ubw' = Append(ubw, X_ubw)
  /\ w0' = Append(w0, X_w0)
  /\ x_plot' = Append(x_plot, Xk')
  /\ pc' = "continuity"
  /\ UNCHANGED <<config, basis, h, nlpCons, J, u_plot, Uk, Uk_prev, Xc, Xk_end, k, j, solverState, outputs>>

\* variant: the extra path constraint emitted on every interval
Continuity_always ==
  /\ pc = "continuity"
  /\ g' = Append(g, ContinuityRow(Xk))
  /\ lbg' = Append(lbg, Cont_lbg)
  /\ ubg' = Append(ubg, Cont_ubg)
  /\ pc' = "final_path"
  /\ UNCHANGED <<config, basis, h, nlpVars, J, plots, locals, k, j, solverState, outputs>>

\* lines 212-217
Continuity ==
  /\ pc = "continuity"
  /\ g' = Append(g, ContinuityRow(Xk))
  /\ lbg' = Append(lbg, Cont_lbg)
  /\ ubg' = Append(ubg, Cont_ubg)
  /\ pc' = IF k = N - 1 THEN "final_path" ELSE "objective"
  /\ UNCHANGED <<config, basis, h, nlpVars, J, plots, locals, k, j, solverState, outputs>>

\* lines 217-222
FinalPath ==
  /\ pc = "final_path"
  /\ g' = Append(g, PathRow(Xk, Uk))
  /\ lbg' = Append(lbg, Path_lbg)
  /\ ubg' = Append(ubg, Path_ubg)
  /\ pc' = "objective"
  /\ UNCHANGED <<config, basis, h, nlpVars, J, plots, locals, k, j, solverState, outputs>>

\* lines 225-233, and the loop increment
Objective ==
  /\ pc = "objective"
  /\ J' = ObjectiveUpdate(J, k)
  /\ Uk_prev' = Uk
  /\ k' = k + 1
  /\ pc' = "loop"
  /\ UNCHANGED <<config, basis, h, nlpVars, nlpCons, plots, Xk, Uk, Xc, Xk_end, j, solverState, outputs>>

\* lines 235-244; np.concatenate of an empty list raises ValueError
Concatenate ==
  /\ pc = "loop"
  /\ k >= N
  /\ IF lbg = <<>>
       THEN /\ pc' = "error"
            /\ UNCHANGED <<nlpVars, nlpCons>>
       ELSE /\ pc' = "build_nlp"
            /\ w' = VertcatSyms(w)
            /\ g' = VertcatRows(g)
            /\ w0' = Concat(w0, 1)
            /\ lbw' = Concat(lbw, 1)
            /\ ubw' = Concat(ubw, 1)
            /\ lbg' = Concat(lbg, 1)
            /\ ubg' = Concat(ubg, 1)
  /\ UNCHANGED <<config, basis, h, J, plots, locals, k, j, solverState, outputs>>

\* lines 246-252: the solver object and the trajectories function
BuildNlp ==
  /\ pc = "build_nlp"
  /\ trajectories' = [x |-> TrajectoryMap(w, x_plot), u |-> TrajectoryMap(w, u_plot)]
  /\ pc' = "solve"
  /\ UNCHANGED <<config, basis, h, nlpVars, nlpCons, J, plots, locals, k, j,
                 solveCalls, passed, sol, success, outputs>>

\* line 255: the one blocking call of the external solver
Solve ==
  /\ pc = "solve"
  /\ passed' = [x0 |-> w0, lbx |-> lbw, ubx |-> ubw, lbg |-> lbg, ubg |-> ubg]
  /\ solveCalls' = solveCalls + 1
  /\ \E seed \in 0..MaxSeed : sol' = SolverPrimal(seed, lbw, ubw)
  /\ \E converged \in BOOLEAN : success' = <<converged>>
  /\ pc' = "extract"
  /\ UNCHANGED <<config, basis, h, nlpVars, nlpCons, J, plots, locals, k, j, trajectories, outputs>>

\* lines 256-258
Extract ==
  /\ pc = "extract"
  /\ x_opt' = Decode(trajectories.x, nd, sol)
  /\ u_opt' = Decode(trajectories.u, nu, sol)
  /\ pc' = "report"
  /\ UNCHANGED <<config, basis, h, nlpVars, nlpCons, J, plots, locals, k, j, solverState, printed>>

\* variant: success reported whatever the solver said
Report_masked ==
  /\ pc = "report"
  /\ printed' = <<TRUE>>
  /\ pc' = "done"
  /\ UNCHANGED <<config, basis, h, nlpVars, nlpCons, J, plots, locals, k, j, solverState, x_opt, u_opt>>

\* line 265: print('success', solver.stats()['success'])
Report ==
  /\ pc = "report"
  /\ printed' = success
  /\ pc' = "done"
  /\ UNCHANGED <<config, basis, h, nlpVars, nlpCons, J, plots, locals, k, j, solverState, x_opt, u_opt>>

Next ==
  \/ BuildBasis
  \/ ControlDiscretization
  \/ LiftInitial
  \/ NewControl
  \/ PathAtStart
  \/ NewCollocationState
  \/ CollocationDefect
  \/ CollocationPath
  \/ NewState
  \/ Continuity
  \/ FinalPath
  \/ Objective
  \/ Concatenate
  \/ BuildNlp
  \/ Solve
  \/ Extract
  \/ Report

Spec == Init /\ [][Next]_vars

SpecAnyWidth == InitAnyWidth /\ [][Next]_vars

\* =================================================================== claims
Assembling == pc \in {"lift", "loop", "path_start", "colloc_vars", "colloc_defect",
                      "colloc_path", "new_state", "continuity", "final_path", "objective"}
Transcribed == pc = "loop" /\ k = N /\ N >= 1
Concatenated == pc \in {"build_nlp", "solve", "extract", "report", "done"}
Stride == nu + d * nd + nd
XSym(kk) == Sym("X", kk, 0)
USym(kk) == Sym("U", kk, 0)
XcSym(kk, jj) == Sym("Xc", kk, jj - 1)

\* the block expected at position i of the decision vector
LayoutW(i) ==
  IF i = 1 THEN XSym(0)
  ELSE LET q == (i - 2) \div (d + 2)
           r == (i - 2) % (d + 2)
       IN  IF r = 0 THEN USym(q)
           ELSE IF r <= d THEN XcSym(q, r)
           ELSE XSym(q + 1)

CountKind(blocks, kind) == Cardinality({i \in 1..Len(blocks) : blocks[i].kind = kind})

\* C1: for N >= 1 and d >= 1 the decision vector is X_0 followed, for
\* k = 0..N-1 in order, by U_k, Xc_{k,1..d}, X_{k+1}: every block appended so
\* far sits at its layout position, and when transcription finishes w holds
\* N+1 boundary states, N controls and N*d collocation states, ends with X_N,
\* and concatenates to nd + N*(nu + d*nd + nd) scalar entries.
C1_DecisionVectorLayout ==
  /\ (Assembling /\ N >= 1) =>
       /\ Len(w) <= 1 + N * (d + 2)
       /\ \A i \in 1..Len(w) : w[i] = LayoutW(i)
  /\ Transcribed =>
       /\ Len(w) = 1 + N * (d + 2)
       /\ CountKind(w, "X") = N + 1
       /\ CountKind(w, "U") = N
       /\ CountKind(w, "Xc") = N * d
       /\ w[Len(w)] = XSym(N)
  /\ Concatenated =>
       /\ Len(w) = nd + N * (nu + d * nd + nd)
       /\ w[Len(w)].sym = XSym(N)

C1_Witness == Transcribed /\ N >= 2 /\ d >= 2 /\ w[Len(w)] = XSym(N)

\* symbols a constraint block refers to
RowRefs(row) ==
  ({row.fx, row.fu, row.sub} \cup {row.lin[t].sym : t \in 1..Len(row.lin)}) \ {NoSym}

IntervalSyms(q) == {XSym(q), USym(q), XSym(q + 1)} \cup {XcSym(q, r) : r \in 1..d}

BlocksPerInterval == 1 + 2 * d + 1

\* the shape expected of the constraint block at position i
LayoutG(row, i) ==
  IF i = N * BlocksPerInterval + 1
    THEN row.kind = "path" /\ row.fx = XSym(N) /\ row.fu = USym(N - 1)
    ELSE LET q == (i - 1) \div BlocksPerInterval
             r == (i - 1) % BlocksPerInterval
             c == (r + 1) \div 2
         IN  /\ RowRefs(row) \subseteq IntervalSyms(q)
             /\ IF r = 0
                  THEN row.kind = "path" /\ row.fx = XSym(q) /\ row.fu = USym(q)
                ELSE IF r = 2 * d + 1
                  THEN /\ row.kind = "cont" /\ row.sub = XSym(q + 1)
                       /\ {row.lin[t].sym : t \in 1..Len(row.lin)}
                            = IntervalSyms(q) \ {USym(q), XSym(q + 1)}
                ELSE IF r % 2 = 1
                  THEN /\ row.kind = "defect" /\ row.fx = XcSym(q, c) /\ row.fu = USym(q)
                       /\ \A t \in 1..Len(row.lin) : row.lin[t].mat = "C" /\ row.lin[t].c = c
                  ELSE row.kind = "path" /\ row.fx = XcSym(q, c) /\ row.fu = USym(q)

\* C2: for N >= 1 and d >= 1 the constraint list is, per interval k in
\* order, a path block at (X_k, U_k), then for j = 1..d a defect block at
\* (Xc_{k,j}, U_k) followed by a path block at (Xc_{k,j}, U_k), then the
\* continuity block against X_{k+1}; one extra path block at (X_N, U_{N-1})
\* follows the continuity block of interval N-1 only; there are
\* N*(1 + 2*d + 1) + 1 blocks and a block of interval k refers only to X_k,
\* U_k, Xc_{k,1..d} and X_{k+1}.
C2_ConstraintLayout ==
  /\ (Assembling /\ N >= 1) =>
       /\ Len(g) <= N * BlocksPerInterval + 1
       /\ \A i \in 1..Len(g) : LayoutG(g[i], i)
  /\ Transcribed => Len(g) = N * BlocksPerInterval + 1

C2_Witness == Transcribed /\ N >= 3 /\ d >= 2 /\ g[Len(g)].kind = "path"

\* C3: after the initial-state lift and after every append group, w, w0, lbw
\* and ubw have equally many blocks of pairwise equal width, and so have g,
\* lbg and ubg; defect and continuity blocks are bounded [0, 0] and path
\* blocks [-inf, 0] component-wise; the concatenated vectors keep the
\* alignment.
C3_PositionalAlignment ==
  /\ Assembling =>
       /\ Len(w) = Len(w0) /\ Len(w) = Len(lbw) /\ Len(w) = Len(ubw)
       /\ \A i \in 1..Len(w) :
            /\ Len(w0[i]) = Width(w[i])
            /\ Len(lbw[i]) = Width(w[i])
            /\ Len(ubw[i]) = Width(w[i])
       /\ Len(g) = Len(lbg) /\ Len(g) = Len(ubg)
       /\ \A i \in 1..Len(g) :
            /\ Len(lbg[i]) = g[i].width
            /\ Len(ubg[i]) = g[i].width
            /\ \A c \in 1..g[i].width :
                 /\ ubg[i][c] = 0
                 /\ lbg[i][c] = IF g[i].kind = "path" THEN NegInf ELSE 0
  /\ Concatenated =>
       /\ Len(w) = Len(w0) /\ Len(w) = Len(lbw) /\ Len(w) = Len(ubw)
       /\ Len(g) = Len(lbg) /\ Len(g) = Len(ubg)
       /\ \A n \in 1..Len(g) :
            /\ ubg[n] = 0
            /\ lbg[n] = IF g[n].row.kind = "path" THEN NegInf ELSE 0

C3_Witness ==
  /\ pc = "colloc_defect" /\ k >= 1 /\ j >= 2
  /\ g[Len(g)].kind = "path" /\ lbg[Len(lbg)] = <<NegInf, NegInf, NegInf>>

\* the fixed initial condition [0.27, 765., 0.0]
PinnedInitial == <<270, 765000, 0>>

\* C4: X_0 is the only decision-vector block whose lower and upper bounds
\* coincide, both being the fixed initial vector, and the first column of
\* the decoded state trajectory is that vector whatever point of the bound
\* box the solver returned and whether or not it converged.
C4_PinnedInitialState ==
  /\ (Assembling /\ Len(w) >= 1) =>
       /\ lbw[1] = PinnedInitial /\ ubw[1] = PinnedInitial
       /\ \A i \in 1..Len(w) : (lbw[i] = ubw[i]) <=> (w[i] = XSym(0))
  /\ pc \in {"report", "done"} =>
       \A i \in 1..nd : x_opt[i][1] = PinnedInitial[i]

C4_Witness == pc = "done" /\ success = <<FALSE>> /\ sol # w0 /\ x_opt[1][1] = 270

\* C5: the state matrix is nd x (N+1) and its column k is the nd entries of
\* the decision vector from offset k*(nu + d*nd + nd); the control matrix is
\* nu x N and its column k is the nu entries from offset
\* nd + k*(nu + d*nd + nd); no collocation-state entry is read; decoding
\* the same vector again gives the same matrices.
C5_PositionalDecoding ==
  /\ pc \in {"solve", "extract", "report", "done"} =>
       /\ Len(trajectories.x) = N + 1
       /\ Len(trajectories.u) = N
       /\ \A c \in 1..(N + 1) : \A i \in 1..nd :
            /\ trajectories.x[c][i] = (c - 1) * Stride + i
            /\ w[trajectories.x[c][i]].sym = XSym(c - 1)
       /\ \A c \in 1..N : \A i \in 1..nu :
            /\ trajectories.u[c][i] = nd + (c - 1) * Stride + i
            /\ w[trajectories.u[c][i]].sym = USym(c - 1)
  /\ pc \in {"report", "done"} =>
       /\ Len(sol) = nd + N * Stride
       /\ Len(x_opt) = nd /\ \A i \in 1..nd : Len(x_opt[i]) = N + 1
       /\ Len(u_opt) = nu /\ \A i \in 1..nu : Len(u_opt[i]) = N
       /\ \A c \in 1..(N + 1) : \A i \in 1..nd : x_opt[i][c] = sol[(c - 1) * Stride + i]
       /\ \A c \in 1..N : \A i \in 1..nu : u_opt[i][c] = sol[nd + (c - 1) * Stride + i]
       /\ Decode(trajectories.x, nd, sol) = x_opt
       /\ Decode(trajectories.u, nu, sol) = u_opt

C5_Witness ==
  /\ pc = "done" /\ N >= 2 /\ d >= 2
  /\ x_opt[1][2] # x_opt[1][3] /\ u_opt[1][1] # u_opt[1][2]

\* C6 as stated: for every N >= 1 nothing is added to J on interval 0, only
\* rate penalties on intervals 0 < k < N-1, the terminal reward and rate
\* penalty on interval N-1 only, and the constant initial Uk_prev never
\* enters J.
C6_AsStated ==
  (N >= 1 /\ Assembling) =>
    \A t \in 1..Len(J) :
      /\ J[t].k # 0
      /\ J[t].uprev # Uk_prev_init

\* C6 amended: for N >= 2 nothing is added on interval 0, only the rate
\* penalty between U_k and U_{k-1} on 0 < k < N-1, and the terminal reward
\* on X_N plus the rate penalty on k = N-1, so the constant Uk_prev never
\* enters J; for N = 1 the single interval is the final one and J receives
\* the terminal reward on X_1 plus the rate penalty between U_0 and the
\* constant initial Uk_prev.
C6_ObjectiveAccumulation ==
  /\ (N >= 1 /\ Assembling) =>
       /\ \A t \in 1..Len(J) :
            /\ J[t].k \in 0..(N - 1)
            /\ J[t].k = 0 => N = 1
            /\ J[t].kind = "terminal" => (J[t].k = N - 1 /\ J[t].x = XSym(N))
            /\ J[t].kind = "rate" =>
                 /\ J[t].u = USym(J[t].k)
                 /\ J[t].uprev = IF J[t].k = 0 THEN Uk_prev_init ELSE USym(J[t].k - 1)
       /\ (N >= 2 /\ pc = "loop" /\ k < N) =>
            /\ Len(J) = IF k = 0 THEN 0 ELSE k - 1
            /\ \A t \in 1..Len(J) : J[t].kind = "rate" /\ J[t].k = t
  /\ (Transcribed /\ N >= 2) =>
       /\ Len(J) = N
       /\ \A t \in 1..(N - 2) : J[t].kind = "rate" /\ J[t].k = t
       /\ J[N - 1].kind = "terminal"
       /\ J[N].kind = "rate" /\ J[N].k = N - 1
       /\ \A t \in 1..Len(J) : J[t].uprev # Uk_prev_init
  /\ (Transcribed /\ N = 1) =>
       J = <<TerminalTerm(0, XSym(1)), RateTerm(0, USym(0), Uk_prev_init)>>

C6_Witness == Transcribed /\ N >= 3 /\ Len(J) = N /\ J[1].kind = "rate"

\* rank of a program position in the phase order
Phase(p) ==
  IF p = "basis" THEN 0
  ELSE IF p \in {"solve"} THEN 2
  ELSE IF p = "extract" THEN 3
  ELSE IF p \in {"report", "done"} THEN 4
  ELSE 1

C7_State ==
  /\ solveCalls <= 1
  /\ solveCalls = 1 <=> pc \in {"extract", "report", "done"}
  /\ solveCalls = 1 =>
       /\ N >= 1 /\ k = N
       /\ passed = [x0 |-> w0, lbx |-> lbw, ubx |-> ubw, lbg |-> lbg, ubg |-> ubg]
       /\ Len(passed.lbx) = nd + N * Stride
       /\ success \in {<<TRUE>>, <<FALSE>>}
  /\ printed # <<>> => printed = success
  /\ pc = "done" => printed = success

C7_Step ==
  /\ pc' # "error" => Phase(pc') \in {Phase(pc), Phase(pc) + 1}
  /\ pc' = "error" => Phase(pc) = 1 /\ solveCalls = 0
  /\ Phase(pc) = 2 => Phase(pc') = 3
  /\ solveCalls >= 1 =>
       /\ solveCalls' = solveCalls
       /\ UNCHANGED <<nlpVars, nlpCons, passed, sol, success>>
       /\ pc' # "error"

\* C7: the phases run in the order basis generation, transcription, solve,
\* extraction; the solver is called exactly once, after all N intervals are
\* transcribed, with the bounds transcription produced; nothing changes the
\* bounds or repeats the call afterwards, a non-converged solve does not
\* abort the run, and the printed flag is the solver's flag.
C7_SingleSolve == [][C7_Step /\ C7_State']_vars

C7_Witness == pc = "done" /\ solveCalls = 1 /\ success = <<FALSE>> /\ printed = <<FALSE>>

\* C8: a run with N < 1 or d < 1 is rejected before transcription: no
\* decision variable, no constraint block, no solver call.
C8_RejectedBeforeTranscription ==
  (N < 1 \/ d < 1) => (w = <<>> /\ g = <<>> /\ solveCalls = 0)

\* C9: with a path-constraint output of width 0 no path-constraint rows and
\* no path-constraint bound entries are emitted, the N*d defect and N
\* continuity blocks still are, and g, lbg and ubg stay equally long.
C9_EmptyPathConstraint ==
  m = 0 =>
    /\ Assembling =>
         \A i \in 1..Len(g) : g[i].kind = "path" => (lbg[i] = <<>> /\ ubg[i] = <<>>)
    /\ (pc = "loop" /\ k = N /\ N >= 1) =>
         /\ CountKind(g, "defect") = N * d
         /\ CountKind(g, "cont") = N
    /\ Concatenated => (Len(g) = Len(lbg) /\ Len(g) = Len(ubg))

\* C10: for every degree d >= 1 and every admissible node set the
\* continuity coefficients sum to one.
C10_PartitionOfUnity == D # <<>> => RSum(D, 1) = ROne

C10_Witness ==
  /\ D # <<>> /\ d >= 3 /\ Len(D) = d + 1
  /\ tau_root[3] # RMul(<<2, 1>>, tau_root[2])
  /\ \E i \in 1..Len(D) : D[i][1] < 0

====
